---------------------------- MODULE Spec2Model ----------------------------
(***************************************************************************)
(* A model of openat-ext (src/src/lib.rs): the FileWriter that atomically  *)
(* replaces a file in a directory, and FileExt::copy_to with its           *)
(* process-wide HAS_COPY_FILE_RANGE flag.                                  *)
(*                                                                         *)
(* A directory is a map from names to inodes (0: no such name) and every   *)
(* inode has a byte content.  One step of the model is one system call of  *)
(* the code (or one buffered write), so that other writers and observers   *)
(* can be interleaved between the steps of a commit.                       *)
(***************************************************************************)
EXTENDS Integers, Sequences, FiniteSets, TLC

(***************************************************************************)
(* Bounds of the model.                                                    *)
(***************************************************************************)
\* new_file_writer calls in one behaviour
MaxWriters == 2
\* bytes one writer accepts
MaxBytes == 3
\* capacity of the BufWriter (std's default is 8192), scaled down
BufCap == 2
\* deepest path given to ensure_dir_all
MaxDepth == 3
\* longest source file of a copy
MaxSrc == 3
\* longest destination file before a copy
MaxDst == 2
\* largest file cursor of a handle given to copy_to
MaxPos == 1
\* the buffer of fallback_file_copy ([0u8; 8192]), scaled down
ChunkSize == 2

(***************************************************************************)
(* The directory.                                                          *)
(***************************************************************************)
DestName == "dest"

\* The names the loop of complete_with generates: tmp_prefix, 8 random
\* alphanumeric characters, tmp_suffix.  Two candidates stand for them all.
TmpNames == {"t1", "t2"}

Names == {DestName} \cup TmpNames

\* the unnamed files of the writers are inodes 1, 2, ... in order of creation;
\* the file at DestName before any writer, when there is one
OldIno == MaxWriters + 1
\* a file of somebody else that sits at a temporary name
ForeignIno == MaxWriters + 2

Inodes == 1..ForeignIno

Writers == {1, 2}

Absent == <<-1>>

OldContent == <<1, 2>>

ForeignContent == <<9>>

VARIABLES
  dir,        \* Names -> inode or 0
  fcontent,   \* inode -> bytes
  nfiles,     \* unnamed files created so far
  wpc,        \* writer -> "none" | "open" | "hook" | "link" | "rename" | "cleanup" | "done"
  wfd,        \* writer -> inode of its unnamed file (BufWriter's inner File)
  wbuf,       \* writer -> bytes in the BufWriter's buffer
  bomb,       \* writer -> TRUE while the DropBomb is armed
  tmpname,    \* writer -> the temporary name it linked, or ""
  wres,       \* writer -> "none" | "ok" | "abandoned" | "dropped" | "err_..."
  wpanic,     \* writer -> TRUE once its drop panicked
  wlog,       \* history: writer -> the bytes its write calls accepted, in order
  called,     \* history: writer -> "none" | "complete" | "abandon"
  unwinding,  \* history: writer -> it was dropped while the thread was panicking
  snapNew,    \* history: writer -> the directory as seen when it was created
  snapCall,   \* history: writer -> the directory as seen when complete_with was called
  expect,     \* history: what DestName held at first or the last renamed writer's bytes
  hadDest,    \* history: a file existed at DestName at first
  wf,         \* writer -> the write_file_with call that owns it: kind, position,
              \* what the closure returned and what the call returned
  oop,        \* the last open_file_optional, metadata_optional or
              \* remove_file_optional call: name, result and the directory before it
  trace       \* history: writer -> the steps of its commit so far, in order

wvars == <<dir, fcontent, nfiles, wpc, wfd, wbuf, bomb, tmpname, wres, wpanic,
           wlog, called, unwinding, snapNew, snapCall, expect, hadDest, wf, oop, trace>>

VARIABLES
  HAS_COPY_FILE_RANGE,  \* the static AtomicBool
  src,        \* thread -> bytes of the source file of its call
  dst,        \* thread -> bytes of the destination file of its call
  srcPos,     \* thread -> file cursor of the source handle
  dstPos,     \* thread -> file cursor of the destination handle
  cpc,        \* thread -> "idle" | "loop" | "match" | "fallback" | "done"
  len,        \* thread -> let len
  has_copy_file_range,  \* thread -> the local copy of the flag
  written,    \* thread -> let mut written
  copy_result,\* thread -> the result matched at line 432
  off,        \* thread -> fallback_file_copy's off
  cret,       \* thread -> what copy_to returned
  observed,   \* thread -> it has seen the flag false (relaxed loads may be stale)
  dst0,       \* history: thread -> the destination when copy_to was called
  srcPos0,    \* history: thread -> the source cursor when copy_to was called
  dstPos0,    \* history: thread -> the destination cursor when copy_to was called
  sysc,       \* history: thread -> range-copy system calls of this call that copied bytes
  fellBack,   \* history: thread -> this call entered fallback_file_copy
  issued,     \* history: thread -> this call made a range-copy system call
  unsup,      \* history: thread -> range copies of this call that failed with ENOSYS or EPERM
  downAtEntry \* history: thread -> the call began with the flag false and that visible to it

cvars == <<HAS_COPY_FILE_RANGE, src, dst, srcPos, dstPos, cpc, len, has_copy_file_range,
           written, copy_result, off, cret, observed, dst0, srcPos0, dstPos0, sysc, fellBack,
           issued, unsup, downAtEntry>>

VARIABLES
  tree,       \* path -> the entry at that path of a directory tree: kind and mode
  dop         \* the last ensure_dir or ensure_dir_all call: arguments, result and
              \* the tree before it

dvars == <<tree, dop>>

vars == <<wvars, cvars, dvars>>

\* What an observer reads at a name.
Observe(d, fc, n) == IF d[n] = 0 THEN Absent ELSE fc[d[n]]

View(d, fc) == [n \in Names |-> Observe(d, fc, n)]

\* The k bytes a writer on inode i is given after the first a bytes: every
\* byte of the stream is different, so a reordering or a loss shows.
Stream(i, a, k) == [j \in 1..k |-> 10 * i + a + j]

\* An inode with no name and no open handle is reclaimed.
Reclaim(d, fc, open) ==
  [i \in Inodes |-> IF (\E n \in Names : d[n] = i) \/ i \in open THEN fc[i] ELSE <<>>]

OpenInodes(pc) == {wfd[w] : w \in {v \in Writers : pc[v] \notin {"none", "done"}}}

(***************************************************************************)
(* std::io::BufWriter over the unnamed file.                               *)
(***************************************************************************)
\* a flush that loses the buffered bytes
FileAfterFlushLossy(file, buf, k) == file

\* flush_buf wrote the first k bytes of the buffer (all of them: success)
FileAfterFlush(file, buf, k) == file \o SubSeq(buf, 1, k)

BufAfterFlush(buf, k) == SubSeq(buf, k + 1, Len(buf))

(***************************************************************************)
(* drop_bomb::DropBomb                                                     *)
(***************************************************************************)
\* a defuse that is forgotten
DefuseForgotten(armed) == armed

Defuse(armed) == FALSE

\* Drop of the bomb: panics if it is armed and the thread is not panicking.
BombDrop(armed, panicking) == armed /\ ~panicking

(***************************************************************************)
(* A directory tree under the openat::Dir: relative paths of up to         *)
(* MaxDepth components, each naming nothing, a directory with a mode or a  *)
(* regular file.  One path of every depth stands for them all.             *)
(***************************************************************************)
Paths == {[i \in 1..n |-> i] : n \in 1..MaxDepth}

\* the modes a directory is created with: 0o755 and 0o700
Modes == {493, 448}

NoEntry == [kind |-> "none", mode |-> 0]

\* Path::parent
Parent(p) == SubSeq(p, 1, Len(p) - 1)

\* p and the paths p.parent() yields, the empty one left out
Prefixes(p) == {SubSeq(p, 1, n) : n \in 1..Len(p)}

NoDop == [op |-> "none", p |-> <<>>, m |-> 0, res |-> "none",
          before |-> [q \in Paths |-> NoEntry], bad |-> <<>>]

InitDirIdle ==
  /\ tree = [q \in Paths |-> NoEntry]
  /\ dop = NoDop

\* results of the calls on names of the directory
Some(v) == [kind |-> "Some", v |-> v, e |-> ""]

None == [kind |-> "None", v |-> 0, e |-> ""]

Done(v) == [kind |-> "Ok", v |-> v, e |-> ""]

Failed(e) == [kind |-> "Err", v |-> 0, e |-> e]

NoOop == [op |-> "none", n |-> "", res |-> None, before |-> [n \in Names |-> 0], inj |-> ""]

\* no write_file_with call
WfIdle == [kind |-> "none", pc |-> "idle", fres |-> "none", ret |-> "none", n |-> 0]

InitW ==
  /\ \E d \in {0, OldIno}, f \in {0, ForeignIno} :
       /\ dir = [n \in Names |-> IF n = DestName THEN d ELSE IF n = "t1" THEN f ELSE 0]
       /\ fcontent = [i \in Inodes |-> IF i = OldIno /\ d # 0 THEN OldContent
                                       ELSE IF i = ForeignIno /\ f # 0 THEN ForeignContent
                                       ELSE <<>>]
       /\ expect = (IF d = 0 THEN Absent ELSE OldContent)
       /\ hadDest = (d # 0)
  /\ nfiles = 0
  /\ wpc = [w \in Writers |-> "none"]
  /\ wfd = [w \in Writers |-> 0]
  /\ wbuf = [w \in Writers |-> <<>>]
  /\ bomb = [w \in Writers |-> FALSE]
  /\ tmpname = [w \in Writers |-> ""]
  /\ wres = [w \in Writers |-> "none"]
  /\ wpanic = [w \in Writers |-> FALSE]
  /\ wlog = [w \in Writers |-> <<>>]
  /\ called = [w \in Writers |-> "none"]
  /\ unwinding = [w \in Writers |-> FALSE]
  /\ snapNew = [w \in Writers |-> View(dir, fcontent)]
  /\ snapCall = [w \in Writers |-> View(dir, fcontent)]
  /\ wf = [w \in Writers |-> WfIdle]
  /\ oop = NoOop
  /\ trace = [w \in Writers |-> <<>>]
  /\ InitDirIdle

(***************************************************************************)
(* OpenatDirExt::new_file_writer and FileWriter::new                       *)
(***************************************************************************)
\* let tmpf = self.new_unnamed_file(mode)?; Ok(FileWriter::new(self, tmpf, destname))
NewWriter(w) ==
  /\ wpc[w] \in {"none", "done"}
  /\ nfiles < MaxWriters
  /\ trace' = [trace EXCEPT ![w] = <<>>]
  /\ \/ \* new_unnamed_file(mode)? fails: no writer
        /\ wres' = [wres EXCEPT ![w] = "err_new"]
        /\ wpc' = [wpc EXCEPT ![w] = "none"]
        /\ wpanic' = [wpanic EXCEPT ![w] = FALSE]
        /\ wlog' = [wlog EXCEPT ![w] = <<>>]
        /\ tmpname' = [tmpname EXCEPT ![w] = ""]
        /\ called' = [called EXCEPT ![w] = "none"]
        /\ unwinding' = [unwinding EXCEPT ![w] = FALSE]
        /\ UNCHANGED <<dir, fcontent, nfiles, wfd, wbuf, bomb,
                       snapNew, snapCall, expect, hadDest>>
     \/ /\ nfiles' = nfiles + 1
        /\ wfd' = [wfd EXCEPT ![w] = nfiles + 1]
        /\ fcontent' = [fcontent EXCEPT ![nfiles + 1] = <<>>]
        /\ wbuf' = [wbuf EXCEPT ![w] = <<>>]
        /\ bomb' = [bomb EXCEPT ![w] = TRUE]
        /\ tmpname' = [tmpname EXCEPT ![w] = ""]
        /\ wres' = [wres EXCEPT ![w] = "none"]
        /\ wpanic' = [wpanic EXCEPT ![w] = FALSE]
        /\ wpc' = [wpc EXCEPT ![w] = "open"]
        /\ wlog' = [wlog EXCEPT ![w] = <<>>]
        /\ called' = [called EXCEPT ![w] = "none"]
        /\ unwinding' = [unwinding EXCEPT ![w] = FALSE]
        /\ snapNew' = [snapNew EXCEPT ![w] = View(dir, fcontent)]
        /\ snapCall' = [snapCall EXCEPT ![w] = View(dir, fcontent)]
        /\ UNCHANGED <<dir, expect, hadDest>>

NewFileWriter(w) == NewWriter(w) /\ UNCHANGED <<wf, oop, dvars, cvars>>

(***************************************************************************)
(* One write call on FileWriter::writer, a BufWriter<File>, of the next n  *)
(* bytes of the stream.  k: the bytes of the buffer flush_buf gets out     *)
(* before it fails (Len(buf): it succeeds); m: the bytes a write that      *)
(* bypasses the buffer gets out (0: it fails).                             *)
(***************************************************************************)
Write(w, n, k, m) ==
  LET buf == wbuf[w]
      file == fcontent[wfd[w]]
      chunk == Stream(wfd[w], Len(wlog[w]), n)
      needFlush == Len(buf) + n > BufCap
  IN
  /\ wpc[w] = "open"
  /\ Len(wlog[w]) + n <= MaxBytes
  /\ k \in 0..Len(buf)
  /\ m \in 0..n
  /\ IF needFlush /\ k < Len(buf)
     THEN \* flush_buf()? fails: the write returns the error, nothing accepted
          /\ fcontent' = [fcontent EXCEPT ![wfd[w]] = FileAfterFlush(file, buf, k)]
          /\ wbuf' = [wbuf EXCEPT ![w] = BufAfterFlush(buf, k)]
          /\ UNCHANGED wlog
     ELSE LET file1 == IF needFlush THEN FileAfterFlush(file, buf, Len(buf)) ELSE file
              buf1 == IF needFlush THEN <<>> ELSE buf
          IN IF n >= BufCap
             THEN \* the chunk goes to the file directly; m bytes are accepted
                  /\ fcontent' = [fcontent EXCEPT ![wfd[w]] = file1 \o SubSeq(chunk, 1, m)]
                  /\ wbuf' = [wbuf EXCEPT ![w] = buf1]
                  /\ wlog' = [wlog EXCEPT ![w] = @ \o SubSeq(chunk, 1, m)]
             ELSE /\ fcontent' = [fcontent EXCEPT ![wfd[w]] = file1]
                  /\ wbuf' = [wbuf EXCEPT ![w] = buf1 \o chunk]
                  /\ wlog' = [wlog EXCEPT ![w] = @ \o chunk]
  /\ UNCHANGED <<dir, nfiles, wpc, wfd, bomb, tmpname, wres, wpanic,
                 called, unwinding, snapNew, snapCall, expect, hadDest, trace>>
  /\ UNCHANGED <<wf, oop, dvars, cvars>>

(***************************************************************************)
(* The operations of openat::Dir that complete_with calls.                 *)
(***************************************************************************)
\* a link that binds nothing
LinkFileAtNothing(d, name, ino) == d

\* link_file_at(&fd, name) when it succeeds (it fails with AlreadyExists when
\* the name exists)
LinkFileAt(d, name, ino) == [d EXCEPT ![name] = ino]

\* a check for an existing name that never finds one
AlreadyExistsNever(d, name) == FALSE

\* link_file_at fails with AlreadyExists: the name is bound
AlreadyExists(d, name) == d[name] # 0

\* a rename with its two names swapped
LocalRenameSwapped(d, old, new) == [d EXCEPT ![old] = d[new], ![new] = 0]

\* local_rename(old, new) when it succeeds: new names old's file, in one step
LocalRename(d, old, new) == IF old = new THEN d ELSE [d EXCEPT ![new] = d[old], ![old] = 0]

\* remove_file(name) when it succeeds
RemoveFile(d, name) == [d EXCEPT ![name] = 0]

\* the names the loop of complete_with may generate
LinkCandidates == TmpNames

\* Leaving complete_with, abandon or the writer's scope: the handle is closed
\* and the bomb dropped.
Leave(w, res, d, fc, armed, panicking) ==
  /\ wres' = [wres EXCEPT ![w] = res]
  /\ wpc' = [wpc EXCEPT ![w] = "done"]
  /\ wbuf' = [wbuf EXCEPT ![w] = <<>>]
  /\ bomb' = [bomb EXCEPT ![w] = armed]
  /\ wpanic' = [wpanic EXCEPT ![w] = BombDrop(armed, panicking)]
  /\ dir' = d
  /\ fcontent' = Reclaim(d, fc, OpenInodes(wpc) \ {wfd[w]})

\* The step e of a commit is added to its history; a link that fails with
\* AlreadyExists is recorded once however often the loop repeats it.
Logged(tr, e) ==
  IF e = "link_exists" /\ Len(tr) > 0 /\ tr[Len(tr)] = e THEN tr ELSE Append(tr, e)

\* a commit that goes from the flush to the link
AfterIntoInnerLink == "link"

\* after self.writer.into_inner()? comes f(&fd)?
AfterIntoInner == "hook"

(***************************************************************************)
(* FileWriter::complete_with, up to the flush: self.bomb.defuse() and      *)
(* self.writer.into_inner()?.  k: the bytes of the buffer the flush gets   *)
(* out before it fails (Len(buf): it succeeds).                            *)
(***************************************************************************)
CompleteWith(w, k) ==
  LET buf == wbuf[w]
      file == fcontent[wfd[w]]
      armed == Defuse(bomb[w])
  IN
  /\ wpc[w] = "open"
  /\ k \in 0..Len(buf)
  /\ called' = [called EXCEPT ![w] = "complete"]
  /\ snapCall' = [snapCall EXCEPT ![w] = View(dir, fcontent)]
  /\ trace' = [trace EXCEPT ![w] = Logged(@, IF k < Len(buf) THEN "flush_err" ELSE "flush_ok")]
  /\ IF k < Len(buf)
     THEN Leave(w, "err_flush", dir, fcontent, armed, FALSE)
     ELSE /\ fcontent' = [fcontent EXCEPT ![wfd[w]] = FileAfterFlush(file, buf, k)]
          /\ wbuf' = [wbuf EXCEPT ![w] = BufAfterFlush(buf, k)]
          /\ bomb' = [bomb EXCEPT ![w] = armed]
          /\ wpc' = [wpc EXCEPT ![w] = AfterIntoInner]
          /\ UNCHANGED <<dir, wres, wpanic>>
  /\ UNCHANGED <<nfiles, wfd, tmpname, wlog, unwinding, snapNew, expect, hadDest>>
  /\ UNCHANGED <<wf, oop, dvars, cvars>>

\* f(&fd)?
Hook(w, ok) ==
  /\ wpc[w] = "hook"
  /\ trace' = [trace EXCEPT ![w] = Logged(@, IF ok THEN "hook_ok" ELSE "hook_err")]
  /\ IF ok
     THEN /\ wpc' = [wpc EXCEPT ![w] = "link"]
          /\ UNCHANGED <<dir, fcontent, wbuf, bomb, wres, wpanic>>
     ELSE Leave(w, "err_hook", dir, fcontent, bomb[w], FALSE)
  /\ UNCHANGED <<nfiles, wfd, tmpname, wlog, called, unwinding, snapNew, snapCall,
                 expect, hadDest>>
  /\ UNCHANGED <<wf, oop, dvars, cvars>>

\* One turn of the loop: a candidate name c and link_file_at(&fd, c).
Link(w, c, ok) ==
  /\ wpc[w] = "link"
  /\ c \in LinkCandidates
  /\ trace' = [trace EXCEPT ![w] = Logged(@, IF AlreadyExists(dir, c) THEN "link_exists"
                                             ELSE IF ok THEN "link_ok" ELSE "link_err")]
  /\ IF AlreadyExists(dir, c)
     THEN \* AlreadyExists: continue
          UNCHANGED <<dir, fcontent, wpc, wbuf, bomb, wres, wpanic, tmpname>>
     ELSE IF ok
          THEN /\ dir' = LinkFileAt(dir, c, wfd[w])
               /\ tmpname' = [tmpname EXCEPT ![w] = c]
               /\ wpc' = [wpc EXCEPT ![w] = "rename"]
               /\ UNCHANGED <<fcontent, wbuf, bomb, wres, wpanic>>
          ELSE /\ Leave(w, "err_link", dir, fcontent, bomb[w], FALSE)
               /\ UNCHANGED tmpname
  /\ UNCHANGED <<nfiles, wfd, wlog, called, unwinding, snapNew, snapCall, expect, hadDest>>
  /\ UNCHANGED <<wf, oop, dvars, cvars>>

\* self.dir.local_rename(tmpname, &self.destname)
Rename(w, ok) ==
  /\ wpc[w] = "rename"
  /\ trace' = [trace EXCEPT ![w] = Logged(@, IF ok THEN "rename_ok" ELSE "rename_err")]
  /\ IF ok
     THEN /\ Leave(w, "ok", LocalRename(dir, tmpname[w], DestName), fcontent, bomb[w], FALSE)
          /\ expect' = wlog[w]
     ELSE /\ wpc' = [wpc EXCEPT ![w] = "cleanup"]
          /\ UNCHANGED <<dir, fcontent, wbuf, bomb, wres, wpanic, expect>>
  /\ UNCHANGED <<nfiles, wfd, tmpname, wlog, called, unwinding, snapNew, snapCall, hadDest>>
  /\ UNCHANGED <<wf, oop, dvars, cvars>>

\* a failed cleanup whose error is returned
CleanupResultOwn(ok) == IF ok THEN "err_rename" ELSE "err_cleanup"

\* let _ = self.dir.remove_file(tmpname); Err(e): e is the rename's error
CleanupResult(ok) == "err_rename"

\* a cleanup that removes the destination
CleanupTargetDest(w) == DestName

\* the name the cleanup removes
CleanupTarget(w) == tmpname[w]

\* let _ = self.dir.remove_file(tmpname); Err(e)
Cleanup(w, ok) ==
  /\ wpc[w] = "cleanup"
  /\ trace' = [trace EXCEPT ![w] = Logged(@, IF ok THEN "cleanup_ok" ELSE "cleanup_err")]
  /\ Leave(w, CleanupResult(ok), IF ok THEN RemoveFile(dir, CleanupTarget(w)) ELSE dir,
           fcontent, bomb[w], FALSE)
  /\ UNCHANGED <<nfiles, wfd, tmpname, wlog, called, unwinding, snapNew, snapCall,
                 expect, hadDest>>
  /\ UNCHANGED <<wf, oop, dvars, cvars>>

(***************************************************************************)
(* FileWriter::abandon: the bomb is defused and the writer dropped; the    *)
(* BufWriter's drop may flush into the unnamed file, which is then closed. *)
(***************************************************************************)
\* an abandon that publishes the unnamed file
DirAfterAbandonPublish(d, w) == [d EXCEPT ![DestName] = wfd[w]]

DirAfterAbandon(d, w) == d

Abandon(w) ==
  /\ wpc[w] = "open"
  /\ trace' = [trace EXCEPT ![w] = Logged(@, "abandon")]
  /\ called' = [called EXCEPT ![w] = "abandon"]
  /\ Leave(w, "abandoned", DirAfterAbandon(dir, w), fcontent, Defuse(bomb[w]), FALSE)
  /\ UNCHANGED <<nfiles, wfd, tmpname, wlog, unwinding, snapNew, snapCall, expect, hadDest>>
  /\ UNCHANGED <<wf, oop, dvars, cvars>>

\* The writer goes out of scope with neither complete nor abandon called;
\* p: the thread is panicking already.
DropWriter(w, p) ==
  /\ wpc[w] = "open"
  /\ unwinding' = [unwinding EXCEPT ![w] = p]
  /\ Leave(w, "dropped", dir, fcontent, bomb[w], p)
  /\ UNCHANGED <<nfiles, wfd, tmpname, wlog, called, snapNew, snapCall, expect, hadDest, trace>>
  /\ UNCHANGED <<wf, oop, dvars, cvars>>

(***************************************************************************)
(* FileExt::copy_to and fallback_file_copy.  Every thread runs copy_to on  *)
(* a source and a destination file of its own; the flag is shared.         *)
(***************************************************************************)
Threads == {1, 2}

Min(a, b) == IF a < b THEN a ELSE b

Max(a, b) == IF a < b THEN b ELSE a

\* the bytes of a source file of n bytes, and of a destination file before the copy
SrcFile(n) == [j \in 1..n |-> j]

DstFile(n) == [j \in 1..n |-> 90 + j]

\* What a positioned write of data at offset pos leaves in the file: a gap
\* between the end of the file and pos reads as zero bytes.
WriteAt(file, pos, data) ==
  IF Len(data) = 0 THEN file
  ELSE [j \in 1..Max(Len(file), pos + Len(data)) |->
          IF j > pos /\ j <= pos + Len(data) THEN data[j - pos]
          ELSE IF j <= Len(file) THEN file[j] ELSE 0]

\* What a positioned read of at most n bytes at offset pos returns.
ReadAt(file, pos, n) == SubSeq(file, pos + 1, Min(Len(file), pos + n))

\* a match that forgets EXDEV
FallbackErrorsNoXdev == {"ENOSYS", "EINVAL", "EPERM"}

\* the errors after which copy_to tries fallback_file_copy
FallbackErrors == {"ENOSYS", "EXDEV", "EINVAL", "EPERM"}

\* a store of false after invalid-argument and cross-device too
DowngradeErrorsAll == {"ENOSYS", "EXDEV", "EINVAL", "EPERM"}

\* the errors after which copy_to stores false in HAS_COPY_FILE_RANGE
DowngradeErrors == {"ENOSYS", "EPERM"}

\* any other error of a system call
OtherErrors == {"EIO"}

\* the errors copy_file_range may fail with
Errnos == {"ENOSYS", "EXDEV", "EINVAL", "EPERM"} \cup OtherErrors

Ok(n) == [kind |-> "Ok", n |-> n, e |-> ""]

Err(e) == [kind |-> "Err", n |-> 0, e |-> e]

Panic == [kind |-> "Panic", n |-> 0, e |-> ""]

NoResult == [kind |-> "none", n |-> 0, e |-> ""]

\* the files and handles copy_to is called with
CallInputs == [s : {SrcFile(n) : n \in 0..MaxSrc}, d : {DstFile(n) : n \in 0..MaxDst},
               sp : 0..MaxPos, dp : 0..MaxPos]

IdleInput == [s |-> <<>>, d |-> <<>>, sp |-> 0, dp |-> 0]

InitCopyWith(inp) ==
  /\ HAS_COPY_FILE_RANGE = TRUE
  /\ src = [t \in Threads |-> inp[t].s]
  /\ dst = [t \in Threads |-> inp[t].d]
  /\ srcPos = [t \in Threads |-> inp[t].sp]
  /\ dstPos = [t \in Threads |-> inp[t].dp]
  /\ cpc = [t \in Threads |-> "idle"]
  /\ len = [t \in Threads |-> 0]
  /\ has_copy_file_range = [t \in Threads |-> TRUE]
  /\ written = [t \in Threads |-> 0]
  /\ copy_result = [t \in Threads |-> NoResult]
  /\ off = [t \in Threads |-> 0]
  /\ cret = [t \in Threads |-> NoResult]
  /\ observed = [t \in Threads |-> FALSE]
  /\ dst0 = [t \in Threads |-> inp[t].d]
  /\ srcPos0 = [t \in Threads |-> inp[t].sp]
  /\ dstPos0 = [t \in Threads |-> inp[t].dp]
  /\ sysc = [t \in Threads |-> 0]
  /\ fellBack = [t \in Threads |-> FALSE]
  /\ issued = [t \in Threads |-> FALSE]
  /\ unsup = [t \in Threads |-> 0]
  /\ downAtEntry = [t \in Threads |-> FALSE]

\* no copy is running
InitCopyIdle == InitCopyWith([t \in Threads |-> IdleInput])

\* no writer exists
InitWriterIdle ==
  /\ InitW
  /\ dir[DestName] = 0
  /\ dir["t1"] = 0

\* a load that never sees the store of false
LoadValuesTrue(t) == {TRUE}

\* The values a relaxed load of the flag may return: the flag only ever goes
\* from true to false, so a thread that has not seen false yet may still read
\* true.
LoadValues(t) ==
  IF HAS_COPY_FILE_RANGE THEN {TRUE}
  ELSE IF observed[t] THEN {FALSE} ELSE {TRUE, FALSE}

\* The caller calls copy_to again, on other files.
NewCall(t, i) ==
  /\ cpc[t] = "done"
  /\ i \in CallInputs
  /\ src' = [src EXCEPT ![t] = i.s]
  /\ dst' = [dst EXCEPT ![t] = i.d]
  /\ dst0' = [dst0 EXCEPT ![t] = i.d]
  /\ srcPos' = [srcPos EXCEPT ![t] = i.sp]
  /\ srcPos0' = [srcPos0 EXCEPT ![t] = i.sp]
  /\ dstPos' = [dstPos EXCEPT ![t] = i.dp]
  /\ dstPos0' = [dstPos0 EXCEPT ![t] = i.dp]
  /\ cpc' = [cpc EXCEPT ![t] = "idle"]
  /\ len' = [len EXCEPT ![t] = 0]
  /\ written' = [written EXCEPT ![t] = 0]
  /\ copy_result' = [copy_result EXCEPT ![t] = NoResult]
  /\ off' = [off EXCEPT ![t] = 0]
  /\ cret' = [cret EXCEPT ![t] = NoResult]
  /\ sysc' = [sysc EXCEPT ![t] = 0]
  /\ fellBack' = [fellBack EXCEPT ![t] = FALSE]
  /\ issued' = [issued EXCEPT ![t] = FALSE]
  /\ unsup' = [unsup EXCEPT ![t] = 0]
  /\ downAtEntry' = [downAtEntry EXCEPT ![t] = FALSE]
  /\ UNCHANGED <<HAS_COPY_FILE_RANGE, has_copy_file_range, observed>>
  /\ UNCHANGED <<wvars, dvars>>

\* copy_to returns r
Return(t, r) ==
  /\ cret' = [cret EXCEPT ![t] = r]
  /\ cpc' = [cpc EXCEPT ![t] = "done"]

\* let len = self.metadata()?.len(); the load of the flag; let mut written = 0
CopyToBegin(t, ok) ==
  /\ cpc[t] = "idle"
  /\ IF ok
     THEN /\ len' = [len EXCEPT ![t] = Len(src[t])]
          /\ \E v \in LoadValues(t) :
               /\ has_copy_file_range' = [has_copy_file_range EXCEPT ![t] = v]
               /\ observed' = [observed EXCEPT ![t] = @ \/ ~v]
          /\ written' = [written EXCEPT ![t] = 0]
          /\ cpc' = [cpc EXCEPT ![t] = "loop"]
          /\ UNCHANGED cret
     ELSE /\ Return(t, Err("EIO"))
          /\ UNCHANGED <<len, has_copy_file_range, observed, written>>
  /\ UNCHANGED <<HAS_COPY_FILE_RANGE, src, dst, srcPos, dstPos, copy_result, off,
                 dst0, srcPos0, dstPos0, sysc, fellBack, issued, unsup>>
  /\ downAtEntry' = [downAtEntry EXCEPT ![t] = ~HAS_COPY_FILE_RANGE /\ observed[t]]
  /\ UNCHANGED <<wvars, dvars>>

\* while written < len is false: Ok(written)
CopyReturn(t) ==
  /\ cpc[t] = "loop"
  /\ ~(written[t] < len[t])
  /\ Return(t, Ok(written[t]))
  /\ UNCHANGED <<HAS_COPY_FILE_RANGE, src, dst, srcPos, dstPos, len, has_copy_file_range,
                 written, copy_result, off, observed, dst0, srcPos0, dstPos0, sysc, fellBack,
                 issued, unsup, downAtEntry>>
  /\ UNCHANGED <<wvars, dvars>>

\* What copy_file_range(src, None, dst, None, bytes_to_copy) may return: an
\* error, or the bytes copied, which are fewer than asked for when the
\* kernel copies less and 0 only at the end of the source.
SyscallOutcomes(t) ==
  LET bytes_to_copy == len[t] - written[t]
      avail == IF srcPos[t] < Len(src[t]) THEN Len(src[t]) - srcPos[t] ELSE 0
      most == Min(bytes_to_copy, avail)
  IN {Err(e) : e \in Errnos} \cup {Ok(n) : n \in (IF most = 0 THEN {0} ELSE 1..most)}

\* The has_copy_file_range branch: the system call, which reads at the source
\* handle's cursor, writes at the destination handle's and advances both,
\* and the store of false after ENOSYS or EPERM.
CopyFileRange(t, r) ==
  /\ cpc[t] = "loop"
  /\ written[t] < len[t]
  /\ has_copy_file_range[t]
  /\ r \in SyscallOutcomes(t)
  /\ IF r.kind = "Ok"
     THEN /\ dst' = [dst EXCEPT ![t] = WriteAt(@, dstPos[t], ReadAt(src[t], srcPos[t], r.n))]
          /\ srcPos' = [srcPos EXCEPT ![t] = @ + r.n]
          /\ dstPos' = [dstPos EXCEPT ![t] = @ + r.n]
          /\ sysc' = [sysc EXCEPT ![t] = IF r.n > 0 THEN @ + 1 ELSE @]
          /\ UNCHANGED <<HAS_COPY_FILE_RANGE, observed>>
     ELSE /\ IF r.e \in DowngradeErrors
             THEN /\ HAS_COPY_FILE_RANGE' = FALSE
                  /\ observed' = [observed EXCEPT ![t] = TRUE]
             ELSE UNCHANGED <<HAS_COPY_FILE_RANGE, observed>>
          /\ UNCHANGED <<dst, srcPos, dstPos, sysc>>
  /\ copy_result' = [copy_result EXCEPT ![t] = r]
  /\ cpc' = [cpc EXCEPT ![t] = "match"]
  /\ UNCHANGED <<src, len, has_copy_file_range, written, off, cret,
                 dst0, srcPos0, dstPos0, fellBack, downAtEntry>>
  /\ issued' = [issued EXCEPT ![t] = TRUE]
  /\ unsup' = [unsup EXCEPT ![t] = IF r.kind = "Err" /\ r.e \in {"ENOSYS", "EPERM"} THEN @ + 1 ELSE @]
  /\ UNCHANGED <<wvars, dvars>>

\* The else branch: Err(ENOSYS) with no system call.
CopyNoSyscall(t) ==
  /\ cpc[t] = "loop"
  /\ written[t] < len[t]
  /\ ~has_copy_file_range[t]
  /\ copy_result' = [copy_result EXCEPT ![t] = Err("ENOSYS")]
  /\ cpc' = [cpc EXCEPT ![t] = "match"]
  /\ UNCHANGED <<HAS_COPY_FILE_RANGE, src, dst, srcPos, dstPos, len, has_copy_file_range,
                 written, off, cret, observed, dst0, srcPos0, dstPos0, sysc, fellBack,
                 issued, unsup, downAtEntry>>
  /\ UNCHANGED <<wvars, dvars>>

\* match copy_result
MatchResult(t) ==
  LET r == copy_result[t] IN
  /\ cpc[t] = "match"
  /\ IF r.kind = "Ok"
     THEN /\ written' = [written EXCEPT ![t] = @ + r.n]
          /\ cpc' = [cpc EXCEPT ![t] = "loop"]
          /\ UNCHANGED <<cret, off, fellBack>>
     ELSE IF r.e \in FallbackErrors
          THEN IF written[t] # 0
               THEN \* assert_eq!(written, 0) fails
                    /\ Return(t, Panic)
                    /\ UNCHANGED <<written, off, fellBack>>
               ELSE /\ cpc' = [cpc EXCEPT ![t] = "fallback"]
                    /\ off' = [off EXCEPT ![t] = 0]
                    /\ fellBack' = [fellBack EXCEPT ![t] = TRUE]
                    /\ UNCHANGED <<written, cret>>
          ELSE /\ Return(t, Err(r.e))
               /\ UNCHANGED <<written, off, fellBack>>
  /\ UNCHANGED <<HAS_COPY_FILE_RANGE, src, dst, srcPos, dstPos, len, has_copy_file_range,
                 copy_result, observed, dst0, srcPos0, dstPos0, sysc,
                 issued, unsup, downAtEntry>>
  /\ UNCHANGED <<wvars, dvars>>

\* a fallback that writes every chunk at the start of the file
FallbackWriteAtStart(file, o, data) == WriteAt(file, 0, data)

\* where one turn of fallback_file_copy writes its chunk
FallbackWriteAt(file, o, data) == WriteAt(file, o, data)

\* One turn of the loop of fallback_file_copy.  rok: read_at succeeds; n: the
\* bytes it returns; k: the bytes write_all_at gets out before it fails (n: it
\* succeeds).
FallbackCopy(t, rok, n, k) ==
  LET most == Len(ReadAt(src[t], off[t], ChunkSize)) IN
  /\ cpc[t] = "fallback"
  /\ n \in (IF most = 0 THEN {0} ELSE 1..most)
  /\ k \in 0..n
  /\ IF ~rok
     THEN /\ Return(t, Err("EIO"))
          /\ UNCHANGED <<dst, off>>
     ELSE IF n = 0
          THEN /\ Return(t, Ok(off[t]))
               /\ UNCHANGED <<dst, off>>
          ELSE /\ dst' = [dst EXCEPT ![t] =
                            FallbackWriteAt(@, off[t], SubSeq(ReadAt(src[t], off[t], n), 1, k))]
               /\ IF k < n
                  THEN /\ Return(t, Err("EIO"))
                       /\ UNCHANGED off
                  ELSE /\ off' = [off EXCEPT ![t] = @ + n]
                       /\ UNCHANGED <<cret, cpc>>
  /\ UNCHANGED <<HAS_COPY_FILE_RANGE, src, srcPos, dstPos, len, has_copy_file_range,
                 written, copy_result, observed, dst0, srcPos0, dstPos0, sysc, fellBack,
                 issued, unsup, downAtEntry>>
  /\ UNCHANGED <<wvars, dvars>>

CopyTo(t) ==
  \/ \E ok \in BOOLEAN : CopyToBegin(t, ok)
  \/ CopyReturn(t)
  \/ \E e \in Errnos : CopyFileRange(t, Err(e))
  \/ \E n \in 0..MaxSrc : CopyFileRange(t, Ok(n))
  \/ CopyNoSyscall(t)
  \/ MatchResult(t)
  \/ \E rok \in BOOLEAN, n \in 0..ChunkSize, k \in 0..ChunkSize : FallbackCopy(t, rok, n, k)

\* one thread calls copy_to again and again, on any files
InitCopy ==
  /\ InitWriterIdle
  /\ \E i \in CallInputs : InitCopyWith([t \in Threads |-> IF t = 1 THEN i ELSE IdleInput])

NextCopy == CopyTo(1) \/ \E i \in CallInputs : NewCall(1, i)

SpecCopy == InitCopy /\ [][NextCopy]_vars

\* two threads call copy_to once each, on equal files of their own with the
\* cursors at 0
InitPair ==
  /\ InitWriterIdle
  /\ \E i \in CallInputs : i.sp = 0 /\ i.dp = 0 /\ InitCopyWith([t \in Threads |-> i])

NextPair == \E t \in Threads : CopyTo(t)

SpecPair == InitPair /\ [][NextPair]_vars

\* what a caller does with a writer it holds
UseWriter(w) ==
  \/ \E n \in 1..MaxBytes, k \in 0..BufCap, m \in 0..MaxBytes : Write(w, n, k, m)
  \/ \E k \in 0..BufCap : CompleteWith(w, k)
  \/ \E ok \in BOOLEAN : Hook(w, ok)
  \/ \E c \in Names, ok \in BOOLEAN : Link(w, c, ok)
  \/ \E ok \in BOOLEAN : Rename(w, ok)
  \/ \E ok \in BOOLEAN : Cleanup(w, ok)
  \/ Abandon(w)
  \/ \E p \in BOOLEAN : DropWriter(w, p)

\* one writer at a time, one after the other
InitWriter == InitW /\ InitCopyIdle

NextWriter == NewFileWriter(1) \/ UseWriter(1)

SpecWriter == InitWriter /\ [][NextWriter]_vars

\* two writers at once, each created once, their steps interleaved
NextRace ==
  \E w \in Writers :
    (wpc[w] = "none" /\ wres[w] = "none" /\ NewFileWriter(w)) \/ UseWriter(w)

SpecRace == InitWriter /\ [][NextRace]_vars

(***************************************************************************)
(* The atomic writer's properties.                                         *)
(***************************************************************************)
CommitErrors == {"err_flush", "err_hook", "err_link", "err_rename"}

\* C1. Old or new: at every moment an observer of DestName reads either what
\* it held before any writer, or all the bytes accepted by the writer whose
\* rename happened last; never a part of them, and never nothing when a file
\* was there at first.
C1_OldOrNew ==
  /\ Observe(dir, fcontent, DestName) = expect
  /\ hadDest => dir[DestName] # 0

\* a rename has replaced the old file by bytes that did not fit the buffer,
\* while another writer's unnamed file holds only a part of its bytes
C1_Witness ==
  \E w \in Writers, v \in Writers :
    /\ hadDest /\ wres[w] = "ok" /\ dir[DestName] = wfd[w]
    /\ Len(wlog[w]) > BufCap
    /\ wpc[v] = "open" /\ fcontent[wfd[v]] # <<>> /\ fcontent[wfd[v]] # wlog[v]

\* C2. When complete_with returns Ok, DestName names the writer's file and the
\* file holds all the bytes the writer accepted, in order.
C2_CommitPost ==
  [][\A w \in Writers :
       (wres[w] # "ok" /\ wres'[w] = "ok")
         => /\ dir'[DestName] = wfd[w]
            /\ fcontent'[wfd[w]] = wlog[w]
            /\ wlog'[w] = wlog[w]]_vars

\* a commit of bytes that were all still in the buffer replaced the old file
C2_Witness ==
  \E w \in Writers :
    /\ wres[w] = "ok" /\ hadDest /\ dir[DestName] = wfd[w]
    /\ Len(wlog[w]) > 0 /\ Len(wlog[w]) < BufCap

\* C3. When complete_with returns an error, DestName is as it was when
\* complete_with was called.
C3_FailureUntouched ==
  \A w \in Writers :
    wres[w] \in CommitErrors
      => Observe(dir, fcontent, DestName) = snapCall[w][DestName]

\* the rename failed with a file at the destination
C3_Witness ==
  \E w \in Writers : wres[w] = "err_rename" /\ dir[DestName] # 0 /\ Len(wlog[w]) > 0

\* C4. After abandon the directory is as it was when the writer was created,
\* and the writer has linked no temporary name.
C4_AbandonNoEffect ==
  \A w \in Writers :
    wres[w] = "abandoned" => View(dir, fcontent) = snapNew[w] /\ tmpname[w] = ""

\* abandoned after bytes had reached the unnamed file
C4_Witness ==
  \E w \in Writers : wres[w] = "abandoned" /\ Len(wlog[w]) > BufCap /\ dir[DestName] # 0

\* C5. The drop panics exactly when the writer is dropped with neither
\* complete nor abandon called and the thread is not panicking; the bomb is
\* defused from the first step of complete_with on.
C5_Guard ==
  \A w \in Writers :
    /\ wpanic[w] <=> (wpc[w] = "done" /\ called[w] = "none" /\ wres[w] = "dropped"
                       /\ ~unwinding[w])
    /\ called[w] # "none" => ~bomb[w]
    /\ wres[w] \in CommitErrors \cup {"ok", "abandoned"} => ~wpanic[w]

\* one writer's drop has panicked, another's commit failed without a panic
C5_Witness ==
  \E w \in Writers, v \in Writers :
    /\ wpanic[w] /\ wres[w] = "dropped"
    /\ wres[v] = "err_flush" /\ ~wpanic[v]

(***************************************************************************)
(* The properties of copy_to.                                              *)
(***************************************************************************)
\* copy_to was called with the cursors of both handles at 0
CursorsAtStart(t) == srcPos0[t] = 0 /\ dstPos0[t] = 0

Finished(t) == cpc[t] = "done"

\* C6. Round trip: called with an empty destination and both cursors at 0,
\* a copy_to that returns Ok returns the source's length and leaves the
\* destination equal to the source; a first range copy that fails with
\* ENOSYS, EPERM, EINVAL or EXDEV leads to the fallback, never to an error or
\* a panic, and the only errors returned are those of other failures.
C6_RoundTrip ==
  \A t \in Threads :
    (Finished(t) /\ CursorsAtStart(t) /\ dst0[t] = <<>>)
      => /\ cret[t].kind = "Ok" => cret[t].n = Len(src[t]) /\ dst[t] = src[t]
         /\ cret[t].kind = "Err" => cret[t].e \notin {"ENOSYS", "EPERM", "EINVAL", "EXDEV"}
         /\ cret[t].kind = "Panic" => written[t] > 0
         /\ (copy_result[t].kind = "Err" /\ written[t] = 0
               /\ copy_result[t].e \in {"ENOSYS", "EPERM", "EINVAL", "EXDEV"}) => fellBack[t]

\* a source longer than one chunk was copied by the fallback after the first
\* range copy reported cross-device
C6_Witness ==
  \E t \in Threads :
    /\ Finished(t) /\ CursorsAtStart(t) /\ dst0[t] = <<>>
    /\ cret[t] = Ok(Len(src[t])) /\ Len(src[t]) > ChunkSize
    /\ has_copy_file_range[t] /\ copy_result[t] = Err("EXDEV") /\ fellBack[t]

\* C7 (as claimed). Whatever the cursors of the two handles when copy_to is
\* called, a copy_to that returns Ok has put the source's bytes at offset 0 of
\* the destination and returns the source's length.
C7_CursorIndependent ==
  \A t \in Threads :
    (Finished(t) /\ cret[t].kind = "Ok")
      => cret[t].n = Len(src[t]) /\ dst[t] = WriteAt(dst0[t], 0, src[t])

\* C8. Fallback equivalence: of two calls on equal sources and equal
\* destinations with the cursors at 0, one through the fallback and one
\* through range copies only, both returning Ok, the destinations and the
\* counts returned are equal.
C8_FallbackEquivalence ==
  \A t \in Threads, u \in Threads :
    (/\ Finished(t) /\ Finished(u)
     /\ src[t] = src[u] /\ dst0[t] = dst0[u] /\ CursorsAtStart(t) /\ CursorsAtStart(u)
     /\ cret[t].kind = "Ok" /\ cret[u].kind = "Ok"
     /\ fellBack[t] /\ ~fellBack[u])
      => dst[t] = dst[u] /\ cret[t] = cret[u]

\* a source longer than one chunk over a destination that was not empty: one
\* thread copied it in several range copies, the other by the fallback
C8_Witness ==
  \E t \in Threads, u \in Threads :
    /\ Finished(t) /\ Finished(u) /\ cret[t].kind = "Ok" /\ cret[u].kind = "Ok"
    /\ fellBack[t] /\ ~fellBack[u] /\ sysc[u] > 1
    /\ Len(src[t]) > ChunkSize /\ Len(dst0[t]) > 0

\* C9. The flag starts true; it only ever changes from true to false, and
\* only in a step in which a range copy returned ENOSYS or EPERM.
C9_FlagMonotonic ==
  /\ HAS_COPY_FILE_RANGE = TRUE
  /\ [][HAS_COPY_FILE_RANGE' # HAS_COPY_FILE_RANGE
          => /\ HAS_COPY_FILE_RANGE = TRUE
             /\ HAS_COPY_FILE_RANGE' = FALSE
             /\ \E t \in Threads :
                  /\ cpc[t] = "loop" /\ cpc'[t] = "match" /\ has_copy_file_range[t]
                  /\ copy_result'[t] \in {Err("ENOSYS"), Err("EPERM")}]_vars

\* a range copy of one thread failed with EPERM, the flag is false, and the
\* call of the other thread, which read it false, has finished by the fallback
C9_Witness ==
  \E t \in Threads, u \in Threads :
    /\ ~HAS_COPY_FILE_RANGE
    /\ Finished(t) /\ ~has_copy_file_range[t] /\ cret[t].kind = "Ok" /\ len[t] > 0
    /\ has_copy_file_range[u] /\ copy_result[u] = Err("EPERM")

\* C10 (as claimed). A range copy that fails after an earlier one of the same
\* call copied bytes makes copy_to return that error.
C10_PartialErrorSurfaced ==
  \A t \in Threads :
    (Finished(t) /\ copy_result[t].kind = "Err" /\ written[t] > 0)
      => cret[t] = Err(copy_result[t].e)

\* The thread that runs copy_to keeps running: a step of copy_to that stays
\* possible is taken in the end.
SpecCopyFair == InitCopy /\ [][NextCopy]_vars /\ WF_vars(CopyTo(1))

\* C11 (as claimed). copy_to terminates: a call that has entered the loop
\* returns in the end, whatever the range copy answers, a success of 0 bytes
\* with fewer bytes copied than the length read at entry included.
C11_Terminates ==
  \A t \in Threads : (cpc[t] = "loop") ~> (cpc[t] = "done")

(***************************************************************************)
(* Two writers on the same destination, no system call failing.            *)
(***************************************************************************)
\* what a caller does with a writer when every system call succeeds: it
\* writes, then calls complete()
UseWriterOk(w) ==
  \/ \E n \in 1..MaxBytes : Write(w, n, Len(wbuf[w]), n)
  \/ CompleteWith(w, Len(wbuf[w]))
  \/ Hook(w, TRUE)
  \/ \E c \in Names : Link(w, c, TRUE)
  \/ Rename(w, TRUE)

\* new_file_writer succeeds
NewFileWriterOk(w) == NewFileWriter(w) /\ wpc'[w] = "open"

NextRaceOk ==
  \E w \in Writers :
    (wpc[w] = "none" /\ wres[w] = "none" /\ NewFileWriterOk(w)) \/ UseWriterOk(w)

SpecRaceOk == InitWriter /\ [][NextRaceOk]_vars

\* C12. Two writers racing on the same destination, no system call failing:
\* a complete() that returns returns Ok; a temporary name a writer has linked
\* names that writer's file, so the two never hold the same one; once both
\* have returned, DestName holds all the bytes of the writer whose rename
\* came last and no other name is bound to a writer's file.
C12_RaceBothCommit ==
  /\ \A w \in Writers : wpc[w] = "done" => wres[w] = "ok"
  /\ \A w \in Writers :
       wpc[w] = "rename" => tmpname[w] \in TmpNames /\ dir[tmpname[w]] = wfd[w]
  /\ \A w \in Writers, v \in Writers :
       (w # v /\ wpc[w] = "rename" /\ wpc[v] = "rename") => tmpname[w] # tmpname[v]
  /\ (\A w \in Writers : wres[w] = "ok")
       => /\ Observe(dir, fcontent, DestName) = expect
          /\ \E w \in Writers : dir[DestName] = wfd[w] /\ expect = wlog[w]
          /\ \A n \in TmpNames : dir[n] \notin {wfd[w] : w \in Writers}

\* both commits returned Ok over an old file, with somebody else's file at one
\* candidate name; the writer created first renamed last
C12_Witness ==
  /\ \A w \in Writers : wres[w] = "ok" /\ Len(wlog[w]) > 0
  /\ hadDest /\ dir["t1"] = ForeignIno
  /\ wfd[1] = 1 /\ dir[DestName] = wfd[1] /\ tmpname[1] = tmpname[2]

(***************************************************************************)
(* OpenatDirExt::write_file_with, write_file_with_sync and                 *)
(* write_file_contents.  The closure f writes to w.writer and returns      *)
(* Ok(v) or Err(e); write_file_contents' closure is write_all(contents).   *)
(***************************************************************************)
WfKinds == {"with", "sync", "contents"}

\* a call that returns Ok(v) whatever the commit returned
WfResultIgnoreCommit(fres, res) == IF fres = "Err" THEN "Err_e" ELSE "Ok_v"

\* What the call returns: Err(e) of the closure after abandon; after
\* complete()? the commit's error, or else Ok(v).
WfResult(fres, res) ==
  IF fres = "Err" THEN "Err_e" ELSE IF res = "ok" THEN "Ok_v" ELSE res

\* let mut w = self.new_file_writer(destname, mode)?; n: the length of
\* contents (write_file_contents)
WriteFileCall(w, kind, n) ==
  /\ wf[w].pc \in {"idle", "done"}
  /\ kind \in WfKinds
  /\ n \in (IF kind = "contents" THEN 0..MaxBytes ELSE {0})
  /\ NewWriter(w)
  /\ wf' = [wf EXCEPT ![w] =
              IF wpc'[w] = "open"
              THEN [kind |-> kind, pc |-> "closure", fres |-> "none", ret |-> "none", n |-> n]
              ELSE [kind |-> kind, pc |-> "done", fres |-> "none", ret |-> "err_new", n |-> n]]
  /\ UNCHANGED <<oop, dvars, cvars>>

\* one write call of the closure on w.writer
ClosureWrite(w, n, k, m) ==
  /\ wf[w].pc = "closure"
  /\ wf[w].kind = "contents" => Len(wlog[w]) + n <= wf[w].n
  /\ Write(w, n, k, m)

\* f(&mut w.writer) returns Ok(v) or Err(e); write_all returns Ok when all of
\* contents was accepted and Err when a write failed before that
ClosureReturn(w, ok) ==
  /\ wf[w].pc = "closure"
  /\ wf[w].kind = "contents" => (ok <=> Len(wlog[w]) = wf[w].n)
  /\ wf' = [wf EXCEPT ![w].pc = "match", ![w].fres = IF ok THEN "Ok" ELSE "Err"]
  /\ UNCHANGED <<dir, fcontent, nfiles, wpc, wfd, wbuf, bomb, tmpname, wres, wpanic,
                 wlog, called, unwinding, snapNew, snapCall, expect, hadDest, trace>>
  /\ UNCHANGED <<oop, dvars, cvars>>

\* Ok(v) => w.complete()? or w.complete_with(|f| f.sync_all())?: the steps of
\* complete_with; the hook of complete() is |_f| Ok(()), which cannot fail
MatchOk(w) ==
  /\ wf[w].pc = "match"
  /\ wf[w].fres = "Ok"
  /\ \/ \E k \in 0..BufCap : CompleteWith(w, k)
     \/ \E ok \in BOOLEAN : (ok \/ wf[w].kind = "sync") /\ Hook(w, ok)
     \/ \E c \in Names, ok \in BOOLEAN : Link(w, c, ok)
     \/ \E ok \in BOOLEAN : Rename(w, ok)
     \/ \E ok \in BOOLEAN : Cleanup(w, ok)

\* Err(e) => w.abandon()
MatchErr(w) ==
  /\ wf[w].pc = "match"
  /\ wf[w].fres = "Err"
  /\ Abandon(w)

\* the call returns
WriteFileReturn(w) ==
  /\ wf[w].pc = "match"
  /\ wpc[w] = "done"
  /\ wf' = [wf EXCEPT ![w].pc = "done", ![w].ret = WfResult(wf[w].fres, wres[w])]
  /\ UNCHANGED <<dir, fcontent, nfiles, wpc, wfd, wbuf, bomb, tmpname, wres, wpanic,
                 wlog, called, unwinding, snapNew, snapCall, expect, hadDest, trace>>
  /\ UNCHANGED <<oop, dvars, cvars>>

\* one caller calls the three functions, one call after the other
NextWf ==
  \/ \E kind \in WfKinds, n \in 0..MaxBytes : WriteFileCall(1, kind, n)
  \/ \E n \in 1..MaxBytes, k \in 0..BufCap, m \in 0..MaxBytes : ClosureWrite(1, n, k, m)
  \/ \E ok \in BOOLEAN : ClosureReturn(1, ok)
  \/ MatchOk(1)
  \/ MatchErr(1)
  \/ WriteFileReturn(1)

SpecWf == InitWriter /\ [][NextWf]_vars

\* C13. write_file_with, write_file_with_sync and write_file_contents
\* finalize their writer exactly once.  When the closure returned Ok(v),
\* complete was called and the call returns Ok(v) exactly when the commit
\* returned Ok, and the commit's error otherwise; when it returned Err(e),
\* abandon was called, the call returns Err(e) and the directory is as it was
\* when the call began.  The writer is never dropped with its bomb armed, and
\* once complete or abandon was called no other call of them follows before
\* the function returns.
C13_FinalizedOnce ==
  /\ [](\A w \in Writers :
       wf[w].kind # "none"
         => /\ wres[w] # "dropped" /\ ~wpanic[w]
            /\ wpc[w] = "done" => ~bomb[w] /\ called[w] \in {"complete", "abandon"}
            /\ called[w] = "complete" => wf[w].fres = "Ok"
            /\ called[w] = "abandon" => wf[w].fres = "Err"
            /\ (wf[w].pc = "done" /\ wf[w].fres = "Ok")
                 => /\ called[w] = "complete"
                    /\ wf[w].ret = "Ok_v" <=> wres[w] = "ok"
                    /\ wf[w].ret # "Ok_v" => wf[w].ret = wres[w] /\ wres[w] \in CommitErrors
            /\ (wf[w].pc = "done" /\ wf[w].fres = "Err")
                 => /\ called[w] = "abandon" /\ wres[w] = "abandoned"
                    /\ wf[w].ret = "Err_e"
                    /\ View(dir, fcontent) = snapNew[w])
  /\ [][\A w \in Writers :
          (called[w] # "none" /\ wf[w].pc # "done") => called'[w] = called[w]]_vars

\* write_file_contents returned the error of a failed rename over an old file
\* after all of contents had been accepted, and before that a call returned
\* its closure's error
C13_Witness ==
  \E w \in Writers :
    /\ wf[w].kind = "contents" /\ wf[w].pc = "done" /\ wf[w].ret = "err_rename"
    /\ Len(wlog[w]) = MaxBytes /\ hadDest /\ nfiles = MaxWriters

(***************************************************************************)
(* OpenatDirExt::ensure_dir and ensure_dir_all over the directory tree.    *)
(* A result is the error kind, or "Ok", and the tree left behind.          *)
(***************************************************************************)
\* openat::Dir::create_dir(p, mode), that is mkdirat; bad: the path at which
\* the system call fails for another reason (permission, I/O)
CreateDir(tr, p, m, bad) ==
  LET blocked == {n \in 1..(Len(p) - 1) : tr[SubSeq(p, 1, n)].kind # "dir"}
      first == CHOOSE n \in blocked : \A k \in blocked : n <= k
  IN IF p = bad THEN [res |-> "PermissionDenied", tree |-> tr]
     ELSE IF blocked # {}
     THEN [res |-> IF tr[SubSeq(p, 1, first)].kind = "none" THEN "NotFound" ELSE "NotADirectory",
           tree |-> tr]
     ELSE IF tr[p].kind # "none" THEN [res |-> "AlreadyExists", tree |-> tr]
     ELSE [res |-> "Ok", tree |-> [tr EXCEPT ![p] = [kind |-> "dir", mode |-> m]]]

\* an ensure_dir that returns every error of create_dir
EnsureDirStrict(tr, p, m, bad) == CreateDir(tr, p, m, bad)

\* ensure_dir: AlreadyExists is Ok
EnsureDir(tr, p, m, bad) ==
  LET r == CreateDir(tr, p, m, bad)
  IN IF r.res = "AlreadyExists" THEN [res |-> "Ok", tree |-> r.tree] ELSE r

RECURSIVE impl_ensure_dir_all(_, _, _, _)
\* impl_ensure_dir_all: the parents first, then ensure_dir(p, mode)?
impl_ensure_dir_all(tr, p, m, bad) ==
  LET up == IF Len(Parent(p)) > 0
            THEN impl_ensure_dir_all(tr, Parent(p), m, bad)
            ELSE [res |-> "Ok", tree |-> tr]
  IN IF up.res # "Ok" THEN up ELSE EnsureDir(up.tree, p, m, bad)

\* ensure_dir_all: create_dir; Ok and AlreadyExists are Ok, NotFound leads to
\* impl_ensure_dir_all, any other error is returned
EnsureDirAll(tr, p, m, bad) ==
  LET r == CreateDir(tr, p, m, bad)
  IN IF r.res \in {"Ok", "AlreadyExists"} THEN [res |-> "Ok", tree |-> r.tree]
     ELSE IF r.res = "NotFound" THEN impl_ensure_dir_all(r.tree, p, m, bad)
     ELSE r

\* a call of ensure_dir(p, m)
EnsureDirCall(p, m, bad) ==
  LET r == EnsureDir(tree, p, m, bad) IN
  /\ tree' = r.tree
  /\ dop' = [op |-> "ensure_dir", p |-> p, m |-> m, res |-> r.res, before |-> tree,
             bad |-> bad]
  /\ UNCHANGED <<wvars, cvars>>

\* a call of ensure_dir_all(p, m)
EnsureDirAllCall(p, m, bad) ==
  LET r == EnsureDirAll(tree, p, m, bad) IN
  /\ tree' = r.tree
  /\ dop' = [op |-> "ensure_dir_all", p |-> p, m |-> m, res |-> r.res, before |-> tree,
             bad |-> bad]
  /\ UNCHANGED <<wvars, cvars>>

\* somebody creates a regular file at p
CreateFileAt(p) ==
  /\ tree[p].kind = "none"
  /\ Len(p) > 1 => tree[Parent(p)].kind = "dir"
  /\ tree' = [tree EXCEPT ![p] = [kind |-> "file", mode |-> 0]]
  /\ dop' = NoDop
  /\ UNCHANGED <<wvars, cvars>>

\* somebody removes the file or the empty directory at p
RemoveAt(p) ==
  /\ tree[p].kind # "none"
  /\ \A q \in Paths : (Len(q) > Len(p)) => tree[q].kind = "none"
  /\ tree' = [tree EXCEPT ![p] = NoEntry]
  /\ dop' = NoDop
  /\ UNCHANGED <<wvars, cvars>>

InitTree == InitWriterIdle /\ InitCopyIdle

NextTree ==
  \/ \E p \in Paths, m \in Modes, bad \in Paths \cup {<<>>} : EnsureDirCall(p, m, bad)
  \/ \E p \in Paths, m \in Modes, bad \in Paths \cup {<<>>} : EnsureDirAllCall(p, m, bad)
  \/ \E p \in Paths : CreateFileAt(p)
  \/ \E p \in Paths : RemoveAt(p)

SpecTree == InitTree /\ [][NextTree]_vars

\* the call just made was ensure_dir_all on a tree in which no prefix of p
\* was a regular file, and no system call of it failed for another reason
EnsureDirAllApplies ==
  /\ dop.op = "ensure_dir_all"
  /\ \A q \in Prefixes(dop.p) : dop.before[q].kind # "file"
  /\ dop.bad \notin Prefixes(dop.p)

\* C14. ensure_dir_all(p, m) on a tree in which no prefix of p is a
\* non-directory returns Ok; afterwards every prefix of p is a directory, p
\* has mode m when this call created it, and what existed before is as it
\* was; ensure_dir_all again on p or on any prefix of it, with any mode,
\* returns Ok and changes nothing.
C14_EnsureDirAll ==
  EnsureDirAllApplies
    => /\ dop.res = "Ok"
       /\ \A q \in Prefixes(dop.p) : tree[q].kind = "dir"
       /\ dop.before[dop.p].kind = "none" => tree[dop.p].mode = dop.m
       /\ \A q \in Paths :
            (dop.before[q].kind # "none" \/ q \notin Prefixes(dop.p)) => tree[q] = dop.before[q]
       /\ \A q \in Prefixes(dop.p), m \in Modes :
            EnsureDirAll(tree, q, m, <<>>) = [res |-> "Ok", tree |-> tree]

\* with only the first component there, ensure_dir_all of the deepest path
\* created the rest
C14_Witness ==
  /\ EnsureDirAllApplies
  /\ Len(dop.p) = MaxDepth
  /\ dop.before[<<1>>].kind = "dir" /\ dop.before[<<1>>].mode # dop.m
  /\ dop.before[<<1, 2>>].kind = "none"
  /\ tree[dop.p].kind = "dir"

(***************************************************************************)
(* open_file_optional, metadata_optional and remove_file_optional on the   *)
(* names of the directory.  inj: the error the system call fails with for  *)
(* a reason other than the name ("": none).                                *)
(***************************************************************************)
\* errors of a system call that have nothing to do with the name
InjectedErrors == {"PermissionDenied", "Other"}

\* openat::Dir::open_file(n) and metadata(n): the file named n
Lookup(d, n, inj) ==
  IF inj # "" THEN Failed(inj)
  ELSE IF d[n] = 0 THEN Failed("NotFound") ELSE Done(d[n])

\* an open_file_optional that returns NotFound as an error
open_file_strict(d, n, inj) ==
  LET r == Lookup(d, n, inj) IN IF r.kind = "Ok" THEN Some(r.v) ELSE r

\* match self.open_file(p): Ok(f) => Ok(Some(f)); NotFound => Ok(None); Err(e)
open_file_optional(d, n, inj) ==
  LET r == Lookup(d, n, inj)
  IN IF r.kind = "Ok" THEN Some(r.v)
     ELSE IF r.e = "NotFound" THEN None ELSE r

\* match self.metadata(p): Ok(d) => Ok(Some(d)); NotFound => Ok(None); Err(e)
metadata_optional(d, n, inj) ==
  LET r == Lookup(d, n, inj)
  IN IF r.kind = "Ok" THEN Some(r.v)
     ELSE IF r.e = "NotFound" THEN None ELSE r

\* openat::Dir::remove_file(n): the result
Unlink(d, n, inj) ==
  IF inj # "" THEN Failed(inj)
  ELSE IF d[n] = 0 THEN Failed("NotFound") ELSE Done(0)

\* match self.remove_file(p): Ok(_) => Ok(()); NotFound => Ok(()); Err(e)
remove_file_optional(d, n, inj) ==
  LET r == Unlink(d, n, inj)
  IN IF r.kind = "Ok" THEN Done(0)
     ELSE IF r.e = "NotFound" THEN Done(0) ELSE r

\* the directory after remove_file(n) returned r
DirAfterUnlink(d, n, inj) == IF Unlink(d, n, inj).kind = "Ok" THEN RemoveFile(d, n) ELSE d

OpenFileOptional(n, inj) ==
  /\ oop' = [op |-> "open_file_optional", n |-> n, res |-> open_file_optional(dir, n, inj),
             before |-> dir, inj |-> inj]
  /\ UNCHANGED <<dir, fcontent, nfiles, wpc, wfd, wbuf, bomb, tmpname, wres, wpanic,
                 wlog, called, unwinding, snapNew, snapCall, expect, hadDest, wf, trace>>
  /\ UNCHANGED <<dvars, cvars>>

MetadataOptional(n, inj) ==
  /\ oop' = [op |-> "metadata_optional", n |-> n, res |-> metadata_optional(dir, n, inj),
             before |-> dir, inj |-> inj]
  /\ UNCHANGED <<dir, fcontent, nfiles, wpc, wfd, wbuf, bomb, tmpname, wres, wpanic,
                 wlog, called, unwinding, snapNew, snapCall, expect, hadDest, wf, trace>>
  /\ UNCHANGED <<dvars, cvars>>

RemoveFileOptional(n, inj) ==
  /\ oop' = [op |-> "remove_file_optional", n |-> n, res |-> remove_file_optional(dir, n, inj),
             before |-> dir, inj |-> inj]
  /\ dir' = DirAfterUnlink(dir, n, inj)
  /\ fcontent' = Reclaim(dir', fcontent, OpenInodes(wpc))
  /\ UNCHANGED <<nfiles, wpc, wfd, wbuf, bomb, tmpname, wres, wpanic,
                 wlog, called, unwinding, snapNew, snapCall, expect, hadDest, wf, trace>>
  /\ UNCHANGED <<dvars, cvars>>

\* d.write_file(n, mode) of the tests: n names an empty file, a new one when
\* there was none
CreateFile(n) ==
  LET free == {i \in Inodes : (\A k \in Names : dir[k] # i) /\ i \notin OpenInodes(wpc)}
      ino == IF dir[n] # 0 THEN dir[n] ELSE CHOOSE i \in free : \A j \in free : i <= j
  IN
  /\ dir[n] = 0 => free # {}
  /\ dir' = [dir EXCEPT ![n] = ino]
  /\ fcontent' = [fcontent EXCEPT ![ino] = <<>>]
  /\ oop' = NoOop
  /\ UNCHANGED <<nfiles, wpc, wfd, wbuf, bomb, tmpname, wres, wpanic,
                 wlog, called, unwinding, snapNew, snapCall, expect, hadDest, wf, trace>>
  /\ UNCHANGED <<dvars, cvars>>

NextOpt ==
  \/ \E n \in Names : CreateFile(n)
  \/ \E n \in Names, inj \in InjectedErrors \cup {""} : OpenFileOptional(n, inj)
  \/ \E n \in Names, inj \in InjectedErrors \cup {""} : MetadataOptional(n, inj)
  \/ \E n \in Names, inj \in InjectedErrors \cup {""} : RemoveFileOptional(n, inj)

SpecOpt == InitWriter /\ [][NextOpt]_vars

\* C15. Not-found translation.  open_file_optional(n) and
\* metadata_optional(n) return Some exactly when n names a file and None,
\* not an error, when it names nothing; remove_file_optional(n) returns Ok
\* whether n named a file, and then names nothing, or named nothing, and
\* then the directory is as before, so that a second call changes nothing;
\* only n's binding changes; an error other than not-found is returned as
\* it is and leaves the directory as before.
C15_NotFoundTranslation ==
  /\ oop.op \in {"open_file_optional", "metadata_optional"}
       => /\ dir = oop.before
          /\ oop.inj = "" => /\ oop.res.kind = "Some" <=> oop.before[oop.n] # 0
                             /\ oop.res.kind = "None" <=> oop.before[oop.n] = 0
                             /\ oop.res.kind = "Some" => oop.res.v = oop.before[oop.n]
          /\ oop.inj # "" => oop.res = Failed(oop.inj)
  /\ oop.op = "remove_file_optional"
       => /\ \A k \in Names \ {oop.n} : dir[k] = oop.before[k]
          /\ oop.inj = "" => /\ oop.res.kind = "Ok"
                             /\ dir[oop.n] = 0
                             /\ remove_file_optional(dir, oop.n, "").kind = "Ok"
                             /\ DirAfterUnlink(dir, oop.n, "") = dir
          /\ oop.inj # "" => oop.res = Failed(oop.inj) /\ dir = oop.before

\* remove_file_optional of a name that names nothing returned Ok, with
\* another file in the directory
C15_Witness ==
  /\ oop.op = "remove_file_optional" /\ oop.inj = "" /\ oop.res.kind = "Ok"
  /\ oop.before[oop.n] = 0 /\ oop.n = "t2"
  /\ \E k \in Names : dir[k] # 0

(***************************************************************************)
(* The order of the steps of a commit.                                     *)
(***************************************************************************)
HookEvents == {"hook_ok", "hook_err"}

\* the steps that ask the directory to bind or unbind a name
NameEvents == {"link_exists", "link_ok", "link_err", "rename_ok", "rename_err",
               "cleanup_ok", "cleanup_err"}

\* the step a writer has just taken, "" when it took none
StepOf(w) == IF trace'[w] # trace[w] /\ Len(trace'[w]) > 0 THEN trace'[w][Len(trace'[w])] ELSE ""

\* C16. The order of the steps of complete_with(f): f is invoked at most
\* once, right after a flush that succeeded and with every accepted byte in
\* the unnamed file; no link, rename or removal is asked for before f has
\* returned Ok; when the flush or f fails, complete_with returns that error
\* and the unnamed file never gets a name.
C16_CommitOrder ==
  /\ [](\A w \in Writers :
         LET tr == trace[w] IN
         /\ Cardinality({i \in DOMAIN tr : tr[i] \in HookEvents}) <= 1
         /\ \A i \in DOMAIN tr : tr[i] \in HookEvents => i = 2 /\ tr[1] = "flush_ok"
         /\ \A i \in DOMAIN tr :
              tr[i] \in NameEvents => \E j \in 1..(i - 1) : tr[j] = "hook_ok"
         /\ (\E i \in DOMAIN tr : tr[i] = "flush_err") <=> wres[w] = "err_flush"
         /\ (\E i \in DOMAIN tr : tr[i] = "hook_err") <=> wres[w] = "err_hook"
         /\ wres[w] \in {"err_flush", "err_hook"}
              => /\ \A i \in DOMAIN tr : tr[i] \notin NameEvents
                 /\ tmpname[w] = ""
                 /\ \A n \in Names : dir[n] # wfd[w])
  /\ [][\A w \in Writers :
          StepOf(w) \in HookEvents => wbuf[w] = <<>> /\ fcontent[wfd[w]] = wlog[w]]_vars

\* the hook failed after a flush had moved the buffered bytes to the unnamed
\* file, with an old file at the destination
C16_Witness ==
  \E w \in Writers :
    /\ wres[w] = "err_hook" /\ trace[w] = <<"flush_ok", "hook_err">>
    /\ Len(wlog[w]) > 0 /\ Len(wlog[w]) <= BufCap /\ hadDest

\* C17. A collision of temporary names never clobbers a file.  A candidate
\* is one of TmpNames; a link that fails with AlreadyExists changes nothing
\* and the loop goes on; a link that fails otherwise ends the commit with
\* that error and no name linked; a link that succeeds binds a name that
\* was free.  A step of a commit changes the binding of no name but the
\* temporary name it linked and DestName, and what is read at the other
\* names stays the same.
C17_NoClobber ==
  [][\A w \in Writers :
       StepOf(w) # ""
         => /\ StepOf(w) = "link_exists"
                 => dir' = dir /\ fcontent' = fcontent /\ wpc'[w] = "link" /\ tmpname'[w] = ""
            /\ StepOf(w) = "link_err"
                 => dir' = dir /\ wres'[w] = "err_link" /\ tmpname'[w] = ""
                    /\ \A n \in Names : dir'[n] # wfd[w]
            /\ StepOf(w) = "link_ok"
                 => /\ tmpname'[w] \in TmpNames
                    /\ dir[tmpname'[w]] = 0 /\ dir'[tmpname'[w]] = wfd[w]
            /\ \A n \in Names :
                 n \notin {tmpname'[w], DestName}
                   => /\ dir'[n] = dir[n]
                      /\ Observe(dir', fcontent', n) = Observe(dir, fcontent, n)]_vars

\* a commit whose first candidate was the name of somebody else's file went
\* on to another name and returned Ok, that file still there; the other
\* writer's link failed
C17_Witness ==
  \E w \in Writers, v \in Writers :
    /\ trace[w] = <<"flush_ok", "hook_ok", "link_exists", "link_ok", "rename_ok">>
    /\ Observe(dir, fcontent, "t1") = ForeignContent
    /\ wres[v] = "err_link"

\* the last step a writer took
LastStep(w) == IF Len(trace[w]) = 0 THEN "" ELSE trace[w][Len(trace[w])]

\* C18. No temporary name leaks.  After complete_with returned Ok the
\* temporary name it linked names nothing.  After a failed rename the error
\* returned is the rename's, whether the removal of the temporary name
\* worked or not; when it worked, the directory's names and what is read at
\* them are as they were when complete_with was called; the temporary name
\* remains, and nothing else differs, only when the removal failed.
C18_NoLeak ==
  \A w \in Writers :
    /\ wres[w] = "ok" => tmpname[w] \in TmpNames /\ dir[tmpname[w]] = 0
    /\ (wpc[w] = "done" /\ \E i \in DOMAIN trace[w] : trace[w][i] = "rename_err")
         => /\ wres[w] = "err_rename"
            /\ LastStep(w) \in {"cleanup_ok", "cleanup_err"}
    /\ (wres[w] = "err_rename" /\ LastStep(w) = "cleanup_ok")
         => View(dir, fcontent) = snapCall[w]
    /\ (wres[w] = "err_rename" /\ View(dir, fcontent) # snapCall[w])
         => /\ LastStep(w) = "cleanup_err"
            /\ dir[tmpname[w]] = wfd[w] /\ snapCall[w][tmpname[w]] = Absent
            /\ \A n \in Names \ {tmpname[w]} : Observe(dir, fcontent, n) = snapCall[w][n]

\* the rename over an old file failed and so did the removal: the temporary
\* name is left with the writer's bytes
C18_Witness ==
  \E w \in Writers :
    /\ wres[w] = "err_rename" /\ LastStep(w) = "cleanup_err"
    /\ hadDest /\ Len(wlog[w]) > 0
    /\ Observe(dir, fcontent, tmpname[w]) = wlog[w]

\* self.metadata()? failed: copy_to returned its error before the loop
MetadataFailed(t) ==
  Finished(t) /\ cret[t].kind = "Err" /\ copy_result[t] = NoResult /\ ~fellBack[t]

\* C19. The downgrade is effective: a copy_to call that begins after the
\* flag has become false, the store being visible to its thread, reads it
\* false and makes no range-copy system call; once the length is read, it
\* returns Ok(0) with the destination untouched for an empty source, and for
\* any other source what fallback_file_copy returns: Ok of the source's
\* length with the source's bytes at offset 0 of the destination, or the
\* error of a read or a write.
C19_DowngradeEffective ==
  \A t \in Threads :
    /\ (downAtEntry[t] /\ cpc[t] # "idle")
         => ~issued[t] /\ unsup[t] = 0 /\ sysc[t] = 0
    /\ (downAtEntry[t] /\ cpc[t] \notin {"idle", "done"}) => ~has_copy_file_range[t]
    /\ (downAtEntry[t] /\ Finished(t) /\ ~MetadataFailed(t))
         => /\ ~has_copy_file_range[t]
            /\ Len(src[t]) = 0 => cret[t] = Ok(0) /\ dst[t] = dst0[t] /\ ~fellBack[t]
            /\ Len(src[t]) > 0
                 => /\ fellBack[t]
                    /\ cret[t].kind \in {"Ok", "Err"}
                    /\ cret[t].kind = "Ok"
                         => cret[t].n = Len(src[t]) /\ dst[t] = WriteAt(dst0[t], 0, src[t])
                    /\ cret[t].kind = "Err" => cret[t].e \in OtherErrors

\* after a range copy failed with ENOSYS, a later call of the same thread
\* copied a source longer than one chunk over a destination that was not
\* empty, its source cursor not at 0, with no system call
C19_Witness ==
  \E t \in Threads :
    /\ downAtEntry[t] /\ Finished(t) /\ ~HAS_COPY_FILE_RANGE
    /\ Len(src[t]) > ChunkSize /\ cret[t] = Ok(Len(src[t]))
    /\ srcPos0[t] > 0 /\ Len(dst0[t]) > 0 /\ ~issued[t]

(***************************************************************************)
(* Two threads call copy_to once each on files of their own: any files and *)
(* cursors for the first, a full source over an empty destination for the  *)
(* second.  A thread that begins after the other's store may read the flag *)
(* true or false.                                                          *)
(***************************************************************************)
InitStale ==
  /\ InitWriterIdle
  /\ \E i \in CallInputs :
       InitCopyWith([t \in Threads |->
                       IF t = 1 THEN i
                       ELSE [s |-> SrcFile(MaxSrc), d |-> <<>>, sp |-> 0, dp |-> 0]])

NextStale == \E t \in Threads : CopyTo(t)

SpecStale == InitStale /\ [][NextStale]_vars

\* C20 (as claimed). With the flag possibly stale, a call makes at most one
\* range copy that fails with ENOSYS or EPERM, and a call that returns Ok
\* returns the source's length and leaves the destination equal to the
\* source.
C20_StaleSafe ==
  \A t \in Threads :
    /\ unsup[t] <= 1
    /\ (Finished(t) /\ cret[t].kind = "Ok")
         => cret[t].n = Len(src[t]) /\ dst[t] = src[t]

\* C21 (as claimed). Whenever ensure_dir(p, m) or ensure_dir_all(p, m)
\* returns Ok, p names a directory, whatever the tree was before, a tree in
\* which p was a regular file included.
C21_OkIsDirectory ==
  (dop.op \in {"ensure_dir", "ensure_dir_all"} /\ dop.res = "Ok")
    => tree[dop.p].kind = "dir"

=============================================================================
